---- MODULE Spec2Model ----
(***************************************************************************)
(* Model of src/app.js (user-data-consolidator).                           *)
(*                                                                         *)
(* The heap holds the user record objects; every list and bucket holds     *)
(* references (RecIds) into the heap, as the JavaScript arrays do, so a    *)
(* merge that mutates a record is seen through every bucket that holds it. *)
(*                                                                         *)
(* A JavaScript value is [t |-> type, v |-> text]: strict equality (===,   *)
(* indexOf) is equality of both, loose equality (==) converts a string to  *)
(* a number, and a property name is the text alone.                        *)
(***************************************************************************)
EXTENDS Naturals, Sequences, FiniteSets

\* ------------------------------------------------------------- bounds
MaxRecs == 3
MaxDate == 2
MaxPass == 3
MaxRuns == 2

\* ------------------------------------------------------------- values
Num1 == [t |-> "number", v |-> "1"]
Str1 == [t |-> "string", v |-> "1"]
StrA == [t |-> "string", v |-> "a"]
StrB == [t |-> "string", v |-> "b"]
StrC == [t |-> "string", v |-> "c"]
Undefined == [t |-> "undefined", v |-> "undefined"]

IdVals == {Num1, Str1, StrA, StrC}
EmailVals == {StrA, StrB, Undefined}

KEYS_WITH_DUPES == <<"_id", "email">>

\* x === y, and Array.prototype.indexOf's comparison
StrictEquals(x, y) == x = y

\* x == y: equal types compare strictly; a number and a string compare as numbers
LooseEquals(x, y) ==
    \/ x = y
    \/ /\ {x.t, y.t} = {"number", "string"}
       /\ x.v = y.v

\* the property name obj[x] uses
ToPropertyKey(x) == x.v

\* property names that are array indices: for-in lists them first, ascending
ArrayIndexNames == <<"0", "1", "2", "3", "4", "5", "6", "7", "8", "9">>

IsArrayIndex(p) == \E n \in 1..Len(ArrayIndexNames) : ArrayIndexNames[n] = p

\* user[key]: undefined when the record has no such property
Get(rec, f) == IF f \in DOMAIN rec THEN rec[f] ELSE Undefined

\* list.indexOf(v) == -1
NotInList(list, v) == \A n \in 1..Len(list) : ~StrictEquals(list[n], v)

Range(s) == {s[n] : n \in 1..Len(s)}

\* a record object as JSON.parse builds it: a key that is absent is no property
MkRecord(id, em, d) ==
    LET dom == {"entryDate"} \cup (IF id = Undefined THEN {} ELSE {"_id"})
                             \cup (IF em = Undefined THEN {} ELSE {"email"})
    IN  [f \in dom |-> CASE f = "_id" -> id
                         [] f = "email" -> em
                         [] OTHER -> d]

RecordSet == {MkRecord(id, em, d) : id \in IdVals, em \in EmailVals, d \in 1..MaxDate}

VARIABLES
    heap,               \* the record objects: RecId -> record
    users,              \* argument of the running getResolveDuplicates
    userHash,           \* key -> array object with one bucket per property
    consolidatedUsers,  \* the list getConsolidatedUserList builds
    duplicateValues,    \* result of getListOfDuplicateValues
    pc, i, j, k,        \* position in getResolveDuplicates / the three loops
    pass,               \* depth of the recursion of getResolveDuplicates
    run,                \* which call of getResolveDuplicates from outside
    output,             \* the list written to consolidated-leads.json
    inputUsers, inputHeap,   \* history: the list and records as loaded
    absorbed,           \* history: RecId -> records merged into it
    mergeLog,           \* history: the calls of consolidateDuplicates of this run
    firstOutput, firstHeap,  \* history: result of the first run
    candLens            \* history: length of the list each pass of this run returned

vars == <<heap, users, userHash, consolidatedUsers, duplicateValues, pc, i, j, k,
          pass, run, output, inputUsers, inputHeap, absorbed, mergeLog,
          firstOutput, firstHeap, candLens>>

\* ------------------------------------------------------------- KeyIndex
\* userHash[activeKey][p].push(user), creating the array first when
\* hasOwnProperty says there is none
PushToBucket(hashK, p, u) ==
    IF \E e \in 1..Len(hashK) : hashK[e].prop = p
    THEN [e \in 1..Len(hashK) |->
            IF hashK[e].prop = p
            THEN [hashK[e] EXCEPT !.bucket = Append(@, u)]
            ELSE hashK[e]]
    ELSE Append(hashK, [prop |-> p, bucket |-> <<u>>])

\* PushMatches that passes over a record whose value for the key is undefined
RECURSIVE PushMatchesDefinedOnly(_, _, _, _, _)
PushMatchesDefinedOnly(hashK, list, n, u, v) ==
    IF n > Len(list) \/ v = Undefined THEN hashK
    ELSE PushMatchesDefinedOnly(IF LooseEquals(list[n], v)
                                THEN PushToBucket(hashK, ToPropertyKey(v), u)
                                ELSE hashK,
                                list, n + 1, u, v)

\* the loop over keyList[j].list (lines 230-245), from list index n on
RECURSIVE PushMatches(_, _, _, _, _)
PushMatches(hashK, list, n, u, v) ==
    IF n > Len(list) THEN hashK
    ELSE PushMatches(IF LooseEquals(list[n], v)
                     THEN PushToBucket(hashK, ToPropertyKey(v), u)
                     ELSE hashK,
                     list, n + 1, u, v)

\* the loop over users for one key (lines 214-247), from user index n on
RECURSIVE TransformKey(_, _, _, _, _, _)
TransformKey(h, us, key, n, list, hashK) ==
    IF n > Len(us) THEN hashK
    ELSE LET v == Get(h[us[n]], key)
             list2 == IF NotInList(list, v) THEN Append(list, v) ELSE list
         IN  TransformKey(h, us, key, n + 1, list2,
                          PushMatches(hashK, list2, 1, us[n], v))

transformUsersToHashByKeys(h, us, keys) ==
    [key \in Range(keys) |-> TransformKey(h, us, key, 1, <<>>, <<>>)]

\* for (var k in hashByKey): array indices ascending, then the other
\* properties in the order they were created
ForIn(hashK) ==
    LET idx(name) == {e \in 1..Len(hashK) : hashK[e].prop = name}
        RECURSIVE Indices(_)
        Indices(n) ==
            IF n > Len(ArrayIndexNames) THEN <<>>
            ELSE (IF idx(ArrayIndexNames[n]) = {} THEN <<>>
                  ELSE <<hashK[CHOOSE e \in idx(ArrayIndexNames[n]) : TRUE]>>)
                 \o Indices(n + 1)
        RECURSIVE Others(_)
        Others(e) ==
            IF e > Len(hashK) THEN <<>>
            ELSE (IF IsArrayIndex(hashK[e].prop) THEN <<>> ELSE <<hashK[e]>>)
                 \o Others(e + 1)
    IN  Indices(1) \o Others(1)

\* ------------------------------------------------------------- GroupMerger
\* UpdateOldest without line 190: a value the accumulator has is never replaced
UpdateOldestKeepExisting(oldestRecord, nextRecord) ==
    [f \in DOMAIN oldestRecord \cup DOMAIN nextRecord |->
        IF f \in DOMAIN oldestRecord THEN oldestRecord[f] ELSE nextRecord[f]]

\* the loop over Object.keys(nextRecord) (lines 180-193)
UpdateOldest(oldestRecord, nextRecord) ==
    [f \in DOMAIN oldestRecord \cup DOMAIN nextRecord |->
        IF f \notin DOMAIN nextRecord THEN oldestRecord[f]
        ELSE IF f \notin DOMAIN oldestRecord THEN nextRecord[f]
        ELSE IF nextRecord[f] # oldestRecord[f] THEN nextRecord[f]
        ELSE oldestRecord[f]]

\* the loop over dupes (lines 173-194), from index n on; dupes[0] is mutated
\* in place, so a later entry that is the same object sees the update
RECURSIVE consolidateFrom(_, _, _)
consolidateFrom(h, dupes, n) ==
    IF n > Len(dupes) THEN h
    ELSE consolidateFrom(
            [h EXCEPT ![dupes[1]] = UpdateOldest(h[dupes[1]], h[dupes[n]])],
            dupes, n + 1)

\* consolidateDuplicates that applies only the record after dupes[0]
consolidateDuplicatesOnlyNext(h, dupes) ==
    [h EXCEPT ![dupes[1]] = UpdateOldest(h[dupes[1]], h[dupes[2]])]

\* consolidateDuplicates that also copies the result into the last record
consolidateDuplicatesBothWays(h, dupes) ==
    LET merged == consolidateFrom(h, dupes, 1)
    IN  [merged EXCEPT ![dupes[Len(dupes)]] = merged[dupes[1]]]

\* the heap after consolidateDuplicates(dupes, key); it returns dupes[0]
consolidateDuplicates(h, dupes) == consolidateFrom(h, dupes, 1)

\* ------------------------------------------------------------- duplicate check
\* lines 132-152: one seen-list for all keys; position n counts (user, key) pairs
RECURSIVE DupScan(_, _, _, _, _, _)
DupScan(h, us, keys, n, list, dupes) ==
    IF n > Len(us) * Len(keys) THEN dupes
    ELSE LET u == us[((n - 1) \div Len(keys)) + 1]
             key == keys[((n - 1) % Len(keys)) + 1]
             v == Get(h[u], key)
         IN  IF NotInList(list, v)
             THEN DupScan(h, us, keys, n + 1, Append(list, v), dupes)
             ELSE DupScan(h, us, keys, n + 1, list, Append(dupes, v))

\* getListOfDuplicateValues with the seen-list declared inside the loop over users
RECURSIVE getListOfDuplicateValuesPerUser(_, _, _)
getListOfDuplicateValuesPerUser(h, us, keys) ==
    IF us = <<>> THEN <<>>
    ELSE DupScan(h, <<Head(us)>>, keys, 1, <<>>, <<>>)
         \o getListOfDuplicateValuesPerUser(h, Tail(us), keys)

getListOfDuplicateValues(h, us, keys) == DupScan(h, us, keys, 1, <<>>, <<>>)

\* ------------------------------------------------------------- Consolidator
\* main (lines 30-36) with the records of leads.json drawn from the set records
InitFrom(records) ==
    /\ \E n \in 0..MaxRecs : heap \in [1..n -> records]
    /\ users = [n \in DOMAIN heap |-> n]
    /\ userHash = [key \in Range(KEYS_WITH_DUPES) |-> <<>>]
    /\ consolidatedUsers = <<>>
    /\ duplicateValues = <<>>
    /\ pc = "transform"
    /\ i = 1 /\ j = 1 /\ k = 1
    /\ pass = 1
    /\ run = 1
    /\ output = <<>>
    /\ inputUsers = users
    /\ inputHeap = heap
    /\ absorbed = [r \in DOMAIN heap |-> {}]
    /\ mergeLog = <<>>
    /\ firstOutput = <<>>
    /\ firstHeap = heap
    /\ candLens = <<>>

Init == InitFrom(RecordSet)

\* leads.json with records that may lack _id as well as email
RecordSetMissingKeys ==
    {MkRecord(id, em, d) : id \in {Num1, StrC, Undefined}, em \in EmailVals,
                           d \in 1..MaxDate}

InitMissingKeys == InitFrom(RecordSetMissingKeys)

\* key with keys[0] written for keys[j]
keyAlwaysFirst == KEYS_WITH_DUPES[1]

\* the key and the buckets the loops of getConsolidatedUserList are at
key == KEYS_WITH_DUPES[j]
hashByKey == ForIn(userHash[key])

\* line 63, and line 96
TransformUsers ==
    /\ pc = "transform"
    /\ userHash' = transformUsersToHashByKeys(heap, users, KEYS_WITH_DUPES)
    /\ consolidatedUsers' = <<>>
    /\ i' = 1 /\ j' = 1 /\ k' = 1
    /\ pc' = "keys"
    /\ UNCHANGED <<heap, users, duplicateValues, pass, run, output, inputUsers,
                   inputHeap, candLens, absorbed, mergeLog, firstOutput, firstHeap>>

\* BeginKey without line 105: the list of the previous key is kept
BeginKeyKeepList ==
    /\ pc = "keys"
    /\ j <= Len(KEYS_WITH_DUPES)
    /\ k' = 1
    /\ pc' = "buckets"
    /\ UNCHANGED <<heap, users, userHash, consolidatedUsers, duplicateValues, i, j,
                   pass, run, output, inputUsers, inputHeap, candLens, absorbed,
                   mergeLog, firstOutput, firstHeap>>

\* lines 98-105: the next key; the list is declared again and so emptied
BeginKey ==
    /\ pc = "keys"
    /\ j <= Len(KEYS_WITH_DUPES)
    /\ consolidatedUsers' = <<>>
    /\ k' = 1
    /\ pc' = "buckets"
    /\ UNCHANGED <<heap, users, userHash, duplicateValues, i, j, pass, run, output,
                   inputUsers, inputHeap, candLens, absorbed, mergeLog, firstOutput, firstHeap>>

\* lines 111-112: a bucket with duplicates
ConsolidateBucket ==
    /\ pc = "buckets"
    /\ k <= Len(hashByKey)
    /\ Len(hashByKey[k].bucket) > 1
    /\ LET dupes == hashByKey[k].bucket
       IN  /\ heap' = consolidateDuplicates(heap, dupes)
           /\ consolidatedUsers' = Append(consolidatedUsers, dupes[1])
           /\ absorbed' = [absorbed EXCEPT ![dupes[1]] =
                  @ \cup (Range(dupes) \ {dupes[1]})
                    \cup UNION {absorbed[r] : r \in Range(dupes) \ {dupes[1]}}]
           /\ mergeLog' = Append(mergeLog,
                  [pass |-> pass, key |-> key, prop |-> hashByKey[k].prop,
                   dupes |-> dupes, before |-> heap[dupes[1]],
                   after |-> heap'[dupes[1]]])
    /\ k' = k + 1
    /\ UNCHANGED <<users, userHash, duplicateValues, pc, i, j, pass, run, output,
                   inputUsers, inputHeap, candLens, firstOutput, firstHeap>>

\* lines 113-114: a bucket of one
PushSingle ==
    /\ pc = "buckets"
    /\ k <= Len(hashByKey)
    /\ Len(hashByKey[k].bucket) <= 1
    /\ consolidatedUsers' = Append(consolidatedUsers, hashByKey[k].bucket[1])
    /\ k' = k + 1
    /\ UNCHANGED <<heap, users, userHash, duplicateValues, pc, i, j, pass, run,
                   output, inputUsers, inputHeap, candLens, absorbed, mergeLog, firstOutput,
                   firstHeap>>

\* end of the loop over hashByKey (line 116)
EndBuckets ==
    /\ pc = "buckets"
    /\ k > Len(hashByKey)
    /\ j' = j + 1
    /\ pc' = "keys"
    /\ UNCHANGED <<heap, users, userHash, consolidatedUsers, duplicateValues, i, k,
                   pass, run, output, inputUsers, inputHeap, absorbed, mergeLog,
                   firstOutput, firstHeap, candLens>>

\* line 97: for (var i in userHash) has one round per property of userHash,
\* that is one per key, and every round walks all the keys again
NextRound ==
    /\ pc = "keys"
    /\ j > Len(KEYS_WITH_DUPES)
    /\ i < Cardinality(DOMAIN userHash)
    /\ i' = i + 1
    /\ j' = 1
    /\ UNCHANGED <<heap, users, userHash, consolidatedUsers, duplicateValues, pc, k,
                   pass, run, output, inputUsers, inputHeap, absorbed, mergeLog,
                   firstOutput, firstHeap, candLens>>

\* line 119
ReturnConsolidated ==
    /\ pc = "keys"
    /\ j > Len(KEYS_WITH_DUPES)
    /\ i >= Cardinality(DOMAIN userHash)
    /\ pc' = "check"
    /\ UNCHANGED <<heap, users, userHash, consolidatedUsers, duplicateValues, i, j, k,
                   pass, run, output, inputUsers, inputHeap, absorbed, mergeLog,
                   firstOutput, firstHeap, candLens>>

\* line 71
CheckDuplicates ==
    /\ pc = "check"
    /\ duplicateValues' =
           getListOfDuplicateValues(heap, consolidatedUsers, KEYS_WITH_DUPES)
    /\ candLens' = Append(candLens, Len(consolidatedUsers))
    /\ pc' = "branch"
    /\ UNCHANGED <<heap, users, userHash, consolidatedUsers, i, j, k, pass, run,
                   output, inputUsers, inputHeap, absorbed, mergeLog, firstOutput,
                   firstHeap>>

\* lines 73-76: duplicates remain, recurse on the consolidated list
Recurse ==
    /\ pc = "branch"
    /\ Len(duplicateValues) > 0
    /\ pass < MaxPass
    /\ users' = consolidatedUsers
    /\ pass' = pass + 1
    /\ pc' = "transform"
    /\ UNCHANGED <<heap, userHash, consolidatedUsers, duplicateValues, i, j, k, run,
                   output, inputUsers, inputHeap, candLens, absorbed, mergeLog, firstOutput,
                   firstHeap>>

\* lines 77-82: no duplicates, write the list
WriteOutput ==
    /\ pc = "branch"
    /\ Len(duplicateValues) = 0
    /\ output' = consolidatedUsers
    /\ pc' = "done"
    /\ UNCHANGED <<heap, users, userHash, consolidatedUsers, duplicateValues, i, j, k,
                   pass, run, inputUsers, inputHeap, candLens, absorbed, mergeLog, firstOutput,
                   firstHeap>>

\* getResolveDuplicates called on its own output
Rerun ==
    /\ pc = "done"
    /\ run < MaxRuns
    /\ users' = output
    /\ firstOutput' = output
    /\ firstHeap' = heap
    /\ run' = run + 1
    /\ pass' = 1
    /\ mergeLog' = <<>>
    /\ candLens' = <<>>
    /\ pc' = "transform"
    /\ UNCHANGED <<heap, userHash, consolidatedUsers, duplicateValues, i, j, k,
                   output, inputUsers, inputHeap, absorbed>>

Next ==
    \/ TransformUsers
    \/ BeginKey
    \/ ConsolidateBucket
    \/ PushSingle
    \/ EndBuckets
    \/ NextRound
    \/ ReturnConsolidated
    \/ CheckDuplicates
    \/ Recurse
    \/ WriteOutput
    \/ Rerun

Spec == Init /\ [][Next]_vars

SpecMissingKeys == InitMissingKeys /\ [][Next]_vars

\* leads.json with records that define every key, no _id equal to an email;
\* no statement of the program reads entryDate, so one date is enough here
RecordSetPlain ==
    {MkRecord(id, em, 1) : id \in {Num1, Str1, StrC}, em \in {StrA, StrB}}

InitPlain == InitFrom(RecordSetPlain)

\* the program is one thread that runs every statement to completion: a step
\* that can be taken is taken
SpecPlainFair == InitPlain /\ [][Next]_vars /\ WF_vars(Next)

\* ------------------------------------------------------------- properties
Keys == Range(KEYS_WITH_DUPES)

Completed == pc = "done" /\ run = 1

\* the bucket ConsolidateBucket is about to merge
dupesNow == hashByKey[k].bucket

\* the value of field f in the last record of dupes that has f
RECURSIVE LastValue(_, _, _, _)
LastValue(h, dupes, f, n) ==
    IF n = 0 THEN Undefined
    ELSE IF f \in DOMAIN h[dupes[n]] THEN h[dupes[n]][f]
    ELSE LastValue(h, dupes, f, n - 1)

\* C1: whenever getResolveDuplicates reaches the branch that writes the output,
\* no two entries of the written list hold the same value for an identifying key
\* (the same under ===; every run and every number of passes).
C1_OutputHasNoSharedKeyValue ==
    pc = "done" =>
        \A p, q \in 1..Len(output) :
            p < q => \A f \in Keys :
                ~StrictEquals(Get(heap[output[p]], f), Get(heap[output[q]], f))

\* C1 witness: a run that completed after more than one pass with two records left
C1_Witness == Completed /\ pass >= 2 /\ Len(output) >= 2

\* two records of the input hold the same value for some identifying key
SharesKeyInInput(a, b) ==
    \E f \in Keys : StrictEquals(Get(inputHeap[a], f), Get(inputHeap[b], f))

\* input record r is output entry o, or was merged into it
RepresentedBy(r, o) == r = o \/ r \in absorbed[o]

\* C2: when resolve completes, two input records that shared a key value in the
\* input are represented by one and the same output record and do not both
\* remain in the output.
C2_DuplicatesEndInOneRecord ==
    Completed =>
        \A a, b \in DOMAIN inputHeap :
            (a # b /\ SharesKeyInInput(a, b)) =>
                /\ \E o \in Range(output) : RepresentedBy(a, o) /\ RepresentedBy(b, o)
                /\ ~(a \in Range(output) /\ b \in Range(output))

\* C3: when resolve completes, every input record is either an output entry
\* itself and merged into no other output entry, or is no output entry and was
\* merged into exactly one.
C3_EveryRecordRepresentedOnce ==
    Completed =>
        \A r \in DOMAIN inputHeap :
            LET absorbers == {o \in Range(output) \ {r} : r \in absorbed[o]}
            IN  \/ r \in Range(output) /\ absorbers = {}
                \/ r \notin Range(output) /\ Cardinality(absorbers) = 1

\* C4: every call of consolidateDuplicates gets its records in ascending
\* entryDate order, the accumulator dupes[0] being the oldest.
C4_MergeInDateOrder ==
    [][ConsolidateBucket =>
        \A m, n \in 1..Len(dupesNow) :
            m < n => heap[dupesNow[m]].entryDate <= heap[dupesNow[n]].entryDate]_vars

\* the records of dupes with the smallest entryDate
Oldest(h, dupes) ==
    {r \in Range(dupes) : \A o \in Range(dupes) : h[r].entryDate <= h[o].entryDate}

\* C5 as claimed: a merge leaves the accumulator with the identifying key values
\* the chronologically oldest record of the group had before the merge.
C5_OldestIdentityKept ==
    [][ConsolidateBucket =>
        \E r \in Oldest(heap, dupesNow) :
            \A f \in Keys : Get(heap'[dupesNow[1]], f) = Get(heap[r], f)]_vars

\* C5 as amended: a merge leaves the accumulator with, for every identifying
\* key, the value of the last record of the bucket that has the key, so the
\* first record's own value survives only if no later record differs.
C5_LastIdentityWins ==
    [][ConsolidateBucket =>
        \A f \in Keys :
            Get(heap'[dupesNow[1]], f) = LastValue(heap, dupesNow, f, Len(dupesNow))]_vars

\* C5 witness: a merge has replaced an identifying key value of its accumulator
C5_Witness ==
    \E n \in 1..Len(mergeLog) : \E f \in Keys :
        /\ f \in DOMAIN mergeLog[n].before
        /\ Get(mergeLog[n].after, f) # Get(mergeLog[n].before, f)

\* no two input records hold, for any identifying key, values that are equal
\* (under == as well as under ===)
NoDuplicateInput ==
    \A a, b \in DOMAIN inputHeap :
        a # b => \A f \in Keys :
            ~LooseEquals(Get(inputHeap[a], f), Get(inputHeap[b], f))

\* C6: on an input without duplicates resolve never starts a second pass, never
\* calls consolidateDuplicates, and writes the input list, records unchanged and
\* in input order; also when an _id value equals some email value.
C6_NoDuplicatesIsNoOp ==
    (run = 1 /\ NoDuplicateInput) =>
        /\ pass = 1
        /\ mergeLog = <<>>
        /\ (pc = "done" => output = inputUsers /\ heap = inputHeap)

\* C7: resolve run again on its own output O takes one pass, merges nothing,
\* finds no duplicate and writes O, records unchanged.
C7_Idempotent ==
    run = 2 =>
        /\ pass = 1
        /\ mergeLog = <<>>
        /\ (pc = "branch" => duplicateValues = <<>>)
        /\ (pc = "done" => output = firstOutput /\ heap = firstHeap)

AllFields == {"_id", "email", "entryDate"}

\* all input records hold the same value for every identifying key
InputAgreesOnKeys ==
    \A a, b \in DOMAIN inputHeap : \A f \in Keys :
        StrictEquals(Get(inputHeap[a], f), Get(inputHeap[b], f))

InputOldestFirst ==
    \A m, n \in 1..Len(inputUsers) :
        m < n => inputHeap[inputUsers[m]].entryDate <= inputHeap[inputUsers[n]].entryDate

\* C8: when all input records agree on every identifying key and are listed
\* oldest first, resolve takes one pass and writes one record, each field of
\* which holds the value of the newest input record that has the field.
C8_AgreeingRecordsMergeInOnePass ==
    (run = 1 /\ Len(inputUsers) >= 1 /\ InputAgreesOnKeys /\ InputOldestFirst) =>
        /\ pass = 1
        /\ (pc = "done" =>
               /\ Len(output) = 1
               /\ \A f \in AllFields :
                      Get(heap[output[1]], f)
                          = LastValue(inputHeap, inputUsers, f, Len(inputUsers)))

\* the places of record u in the buckets of one key's index
Places(hashK, u) ==
    {<<e, n>> \in (1..Len(hashK)) \X (1..Len(users) * Len(users) + 1) :
        n <= Len(hashK[e].bucket) /\ hashK[e].bucket[n] = u}

PositionIn(us, u) == CHOOSE n \in 1..Len(us) : us[n] = u

\* C9: the index transformUsersToHashByKeys returns holds, for every key, each
\* record of the list exactly once, and every bucket keeps the list's order.
C9_IndexIsPartition ==
    pc # "transform" =>
        \A f \in Keys :
            /\ \A u \in Range(users) : Cardinality(Places(userHash[f], u)) = 1
            /\ \A e \in 1..Len(userHash[f]) :
                   \A m, n \in 1..Len(userHash[f][e].bucket) :
                       m < n => PositionIn(users, userHash[f][e].bucket[m])
                                    < PositionIn(users, userHash[f][e].bucket[n])

\* C10: within one pass no _id bucket is merged once an email bucket has been
\* merged.
C10_IdMergesBeforeEmailMerges ==
    [][(ConsolidateBucket /\ key = "_id") =>
        ~\E n \in 1..Len(mergeLog) :
            mergeLog[n].pass = pass /\ mergeLog[n].key = "email"]_vars

\* the first records of the buckets of one key's index, in for-in order
BucketHeads(hashK) == [e \in 1..Len(ForIn(hashK)) |-> ForIn(hashK)[e].bucket[1]]

LastKey == KEYS_WITH_DUPES[Len(KEYS_WITH_DUPES)]

\* the number of buckets of all keys' indexes together
RECURSIVE BucketCount(_)
BucketCount(n) ==
    IF n = 0 THEN 0 ELSE Len(userHash[KEYS_WITH_DUPES[n]]) + BucketCount(n - 1)

\* C11 as claimed: the list getConsolidatedUserList returns has one entry per
\* bucket of every key's index, its length being the sum of the bucket counts.
C11_ListHoldsAllKeys ==
    pc = "check" => Len(consolidatedUsers) = BucketCount(Len(KEYS_WITH_DUPES))

\* C11 as amended: the list getConsolidatedUserList returns has one entry per
\* bucket of the last key's index (email) and none for the other keys: it is
\* the list of the first records of the email buckets.
C11_ListHoldsLastKeyOnly ==
    pc = "check" => consolidatedUsers = BucketHeads(userHash[LastKey])

\* C11 witness: a list returned for an index in which _id has buckets as well
C11_Witness ==
    /\ pc = "check"
    /\ Len(consolidatedUsers) >= 2
    /\ Len(userHash["_id"]) >= 2

\* C12: getListOfDuplicateValues returns a non-empty list exactly when two
\* entries of the list hold the same value for the same identifying key; a
\* value equal to a value of another key gives no marker.
C12_MarkersArePerKey ==
    pc = "branch" =>
        (duplicateValues # <<>>
            <=> \E p, q \in 1..Len(consolidatedUsers) : \E f \in Keys :
                    /\ p < q
                    /\ StrictEquals(Get(heap[consolidatedUsers[p]], f),
                                    Get(heap[consolidatedUsers[q]], f)))

\* the fields of all records of dupes
FieldsOf(h, dupes) == UNION {DOMAIN h[r] : r \in Range(dupes)}

\* C13: consolidateDuplicates returns dupes[0], whose fields afterwards are the
\* union of the fields of all records of the bucket, each holding the value of
\* the last record of the bucket that has the field.
C13_MergeResult ==
    [][ConsolidateBucket =>
        /\ consolidatedUsers' = Append(consolidatedUsers, dupesNow[1])
        /\ DOMAIN heap'[dupesNow[1]] = FieldsOf(heap, dupesNow)
        /\ \A f \in FieldsOf(heap, dupesNow) :
               heap'[dupesNow[1]][f] = LastValue(heap, dupesNow, f, Len(dupesNow))]_vars

\* C13 witness: a merge of three entries or more has given its accumulator a
\* field it did not have
C13_Witness ==
    \E n \in 1..Len(mergeLog) :
        /\ Len(mergeLog[n].dupes) >= 3
        /\ DOMAIN mergeLog[n].after # DOMAIN mergeLog[n].before

KeyIndexOf(f) == CHOOSE n \in 1..Len(KEYS_WITH_DUPES) : KEYS_WITH_DUPES[n] = f

\* the buckets of key f not yet merged or taken since the index was built
Untouched(f) ==
    IF pc \notin {"keys", "buckets"} \/ i > 1 \/ KeyIndexOf(f) < j THEN {}
    ELSE IF KeyIndexOf(f) > j \/ pc = "keys"
         THEN {ForIn(userHash[f])[e] : e \in 1..Len(userHash[f])}
         ELSE {ForIn(userHash[f])[e] : e \in k..Len(userHash[f])}

\* C14: until a bucket of key f is merged or taken, all its records hold the
\* same value for f, the one the bucket is named by, whatever earlier merges
\* have done to them.
C14_BucketHoldsOneValue ==
    \A f \in Keys : \A b \in Untouched(f) :
        \A m, n \in 1..Len(b.bucket) :
            /\ StrictEquals(Get(heap[b.bucket[m]], f), Get(heap[b.bucket[n]], f))
            /\ ToPropertyKey(Get(heap[b.bucket[m]], f)) = b.prop

\* the records of the list that have no property f
Lacking(f) == {u \in Range(users) : f \notin DOMAIN heap[u]}

\* the buckets of key f's index that are named "undefined"
UndefinedBuckets(f) ==
    {e \in 1..Len(userHash[f]) : userHash[f][e].prop = ToPropertyKey(Undefined)}

\* C15: the records that lack key f are indexed, all of them and each once,
\* in the one bucket named undefined; if it holds two records or more it is
\* merged in the pass; and no step of a pass fails on such a record (every
\* state before the write has a next step, up to the bound on passes).
C15_MissingKeyIsOneBucket ==
    /\ (pc = "keys" /\ i = 1 /\ j = 1) =>
          \A f \in Keys :
              Lacking(f) # {} =>
                  /\ Cardinality(UndefinedBuckets(f)) = 1
                  /\ \A e \in UndefinedBuckets(f) :
                         /\ Range(userHash[f][e].bucket) = Lacking(f)
                         /\ Len(userHash[f][e].bucket) = Cardinality(Lacking(f))
                  /\ \A e \in 1..Len(userHash[f]) :
                         e \notin UndefinedBuckets(f) =>
                             Range(userHash[f][e].bucket) \cap Lacking(f) = {}
    /\ pc = "check" =>
          \A f \in Keys : \A e \in UndefinedBuckets(f) :
              Len(userHash[f][e].bucket) >= 2 =>
                  \E n \in 1..Len(mergeLog) :
                      /\ mergeLog[n].pass = pass
                      /\ mergeLog[n].key = f
                      /\ mergeLog[n].dupes = userHash[f][e].bucket
    /\ (pc # "done" /\ ~(pc = "branch" /\ pass >= MaxPass)) => ENABLED Next

\* C15 witness: two records without _id have been merged as a duplicate group
C15_Witness ==
    \E n \in 1..Len(mergeLog) :
        /\ mergeLog[n].key = "_id"
        /\ mergeLog[n].prop = ToPropertyKey(Undefined)
        /\ Cardinality(Range(mergeLog[n].dupes)) >= 2

\* the list a pass returned had a duplicate, so a further pass was made: the
\* list of that pass or of the one after it is shorter (or that pass is still
\* to come)
ShrinksWithinTwoPasses ==
    pc \in {"branch", "done"} =>
        \A p \in 1..(Len(candLens) - 1) :
            \/ candLens[p + 1] < candLens[p]
            \/ p + 2 <= Len(candLens) /\ candLens[p + 2] < candLens[p]
            \/ /\ p + 1 = Len(candLens)
               /\ pc = "branch"
               /\ duplicateValues # <<>>
               /\ pass < MaxPass

\* C16: for an input whose records define every identifying key and in which
\* no _id equals an email, getResolveDuplicates reaches the branch that writes
\* the output, and a candidate list with a remaining duplicate is followed,
\* one or two passes later, by a candidate list with fewer records.
C16_TerminatesAndShrinks == <>(pc = "done") /\ []ShrinksWithinTwoPasses

\* a run that needed three passes: the second pass returned as many records
\* as the first, the third returned fewer and had no duplicate left
C16_Witness ==
    /\ pc = "done"
    /\ Len(candLens) = 3
    /\ candLens[2] = candLens[1]
    /\ candLens[3] < candLens[2]

\* C17: consolidateDuplicates changes the fields of the bucket's first record
\* only: every other record, of the bucket or not, has the same fields and
\* values after the call as before, so an absorbed record never receives the
\* values of the record it was merged into.
C17_MergeChangesFirstRecordOnly ==
    [][ConsolidateBucket =>
        /\ DOMAIN heap' = DOMAIN heap
        /\ \A r \in DOMAIN heap \ {dupesNow[1]} : heap'[r] = heap[r]]_vars

\* the first merge of a run changed the bucket's first record, and a record it
\* absorbed still is as it was read and differs from the merged record
C17_Witness ==
    /\ run = 1
    /\ Len(mergeLog) = 1
    /\ mergeLog[1].before # mergeLog[1].after
    /\ \E r \in Range(mergeLog[1].dupes) \ {mergeLog[1].dupes[1]} :
           /\ heap[r] = inputHeap[r]
           /\ heap[r] # heap[mergeLog[1].dupes[1]]

\* C18: after every pass each entry of the candidate list is one of the input
\* record objects, no record object occurs in it twice, and it is not longer
\* than the list the pass started from.
C18_CandidateListInvariant ==
    pc \in {"check", "branch", "done"} =>
        /\ Range(consolidatedUsers) \subseteq DOMAIN inputHeap
        /\ \A m, n \in DOMAIN consolidatedUsers :
               consolidatedUsers[m] = consolidatedUsers[n] => m = n
        /\ Len(consolidatedUsers) <= Len(users)

\* a second pass that got fewer records than were read and returned fewer still
C18_Witness ==
    /\ pc = "branch"
    /\ run = 1
    /\ pass = 2
    /\ Len(users) < Len(inputUsers)
    /\ Len(consolidatedUsers) < Len(users)

====
